---- MODULE Spec2Model ----
(***************************************************************************)
(* A model of the quant-finance-pipeline analytics utilities:              *)
(*   - OptionsAnalyzer  (src/src/options_analysis.py)                       *)
(*   - DataLoader       (src/src/data_loader.py)                            *)
(*   - ClassicStrategies (src/src/classic_strategies.py)                    *)
(*   - TechnicalIndicators (src/src/technical_analysis.py)                  *)
(*   - FinancialAnalysis (src/src/financial_analysis.py)                    *)
(*                                                                         *)
(* Floating-point numbers are modelled in fixed point.  Dimensionless      *)
(* quantities (rates, years, logarithms, d1/d2, probabilities) are         *)
(* integers in units of 1/Q; prices and strikes are integers in cents;     *)
(* volatilities are integers in units of 1e-6, the unit of the solver's    *)
(* lower bracket and tolerance.  Every product stays below 2^31.           *)
(***************************************************************************)
EXTENDS Integers, Sequences, FiniteSets

VARIABLES
    optPc,      \* OptionsAnalyzer: "start", "priced" (after _bs_price), "done"
                \* (after implied_volatility_from_price); or "table", "computed"
                \* (after compute_implied_vols)
    optArgs,    \* the arguments S, K, T, r, sigma, option_type of the calls
    optPrice,   \* what _bs_price returned
    optMp,      \* the market_price given to implied_volatility_from_price
    optVol,     \* what implied_volatility_from_price returned
    optDf,      \* the options_df and spot_price given to compute_implied_vols,
                \* self.r, and the clock it reads
    optOut      \* the table compute_implied_vols returned

optVars == << optPc, optArgs, optPrice, optMp, optVol, optDf, optOut >>

VARIABLES
    source,     \* DataLoader.source
    tickers,    \* DataLoader.tickers
    ldCall,     \* the DataLoader call being answered: method, arguments, what
                \* the data source answers to its requests
    ldRet       \* what that call returned or raised

ldVars == << source, tickers, ldCall, ldRet >>

VARIABLES
    tsPc,       \* calculate_iv_term_structure: "start", "done"
    tsArgs,     \* its arguments options_df and agg, and the clock it reads
    tsOut       \* the table it returned

tsVars == << tsPc, tsArgs, tsOut >>

VARIABLES
    stPc,       \* ClassicStrategies: "start", then the method that returned:
                \* "done" (moving_average_crossover), "bollinger"
                \* (mean_reversion_bollinger), "breakout" (breakout_strategy)
    stArgs,     \* the Close column of data and the parameters of the call
    stSignal    \* the signal series returned

stVars == << stPc, stArgs, stSignal >>

VARIABLES
    anCall,     \* the TechnicalIndicators or FinancialAnalysis call being
                \* answered: method and argument tables
    anRet       \* what that call returned or raised

anVars == << anCall, anRet >>

vars == << optVars, ldVars, tsVars, stVars, anVars >>

(***************************************************************************)
(* Fixed-point arithmetic standing for the float operations of numpy/scipy *)
(***************************************************************************)

\* one unit of a dimensionless float: 1.0 is Q
Q == 10000

\* one unit of volatility: 1.0 is SigScale (1e-6 is 1)
SigScale == 1000000

\* A float that may be missing: float('nan') is the empty tuple, x is <<x>>
NaN == << >>

Num(x) == << x >>

\* pd.isna(v)
IsNaN(v) == v = NaN

Val(v) == v[1]

Abs(x) == IF x < 0 THEN -x ELSE x

Max(a, b) == IF b > a THEN b ELSE a

\* a / b rounded to the nearest integer (b > 0)
RDiv(a, b) == (2 * a + b) \div (2 * b)

RECURSIVE SqrtSearch(_, _, _)
SqrtSearch(n, lo, hi) ==
    IF hi - lo <= 1 THEN lo
    ELSE LET mid == (lo + hi) \div 2
         IN  IF mid * mid <= n THEN SqrtSearch(n, mid, hi)
                               ELSE SqrtSearch(n, lo, mid)

\* np.sqrt(x) for x >= 0 in units of 1/Q: floor(sqrt(x * Q))
Sqrt(x) == SqrtSearch(x * Q, 0, 40000)

\* np.log(x) for x > 0 in units of 1/Q: 2 * atanh((x-1)/(x+1)) by its series
Log(x) ==
    LET z  == RDiv((x - Q) * Q, x + Q)
        z2 == RDiv(z * z, Q)
        z3 == RDiv(z2 * z, Q)
        z5 == RDiv(z3 * z2, Q)
        z7 == RDiv(z5 * z2, Q)
    IN  RDiv(2 * (105 * z + 35 * z3 + 21 * z5 + 15 * z7), 105)

\* np.exp(y) for small |y| in units of 1/Q, by its series
Exp(y) ==
    LET y2 == RDiv(y * y, Q)
        y3 == RDiv(y2 * y, Q)
        y4 == RDiv(y3 * y, Q)
    IN  Q + y + RDiv(12 * y2 + 4 * y3 + y4, 24)

\* the standard normal distribution function at 0.0, 0.1, ... 4.0, in 1/Q
NormTable ==
    << 5000, 5398, 5793, 6179, 6554, 6915, 7257, 7580, 7881, 8159,
       8413, 8643, 8849, 9032, 9192, 9332, 9452, 9554, 9641, 9713,
       9772, 9821, 9861, 9893, 9918, 9938, 9953, 9965, 9974, 9981,
       9987, 9990, 9993, 9995, 9997, 9998, 9998, 9999, 9999, 10000,
       10000 >>

\* norm.cdf(x) for x >= 0: the table, linearly interpolated, 1.0 from 4.0 on
NormCdfPos(x) ==
    IF x >= 4 * Q THEN Q
    ELSE LET i == x \div 1000
             f == x % 1000
         IN  NormTable[i + 1] + RDiv((NormTable[i + 2] - NormTable[i + 1]) * f, 1000)

\* scipy.stats.norm.cdf(x), x in units of 1/Q
NormCdf(x) == IF x >= 0 THEN NormCdfPos(x) ELSE Q - NormCdfPos(-x)

RECURSIVE LongDiv(_, _, _, _)
\* floor(rem * 100^steps / den) + quo * 100^steps, for 0 <= rem < den
LongDiv(quo, rem, den, steps) ==
    IF steps = 0 THEN quo
    ELSE LongDiv(quo * 100 + (rem * 100) \div den, (rem * 100) % den, den, steps - 1)

\* the largest |d1| the model keeps: norm.cdf is 0.0 or 1.0 far before it
DClamp == 10 * Q

\* num / den for num in 1/Q and den in 1/SigScale, in 1/Q, clamped to +-DClamp
Ratio(num, den) ==
    IF num = 0 THEN 0
    ELSE IF Abs(num) * 10 >= den
    THEN (IF num > 0 THEN DClamp ELSE -DClamp)
    ELSE IF num > 0 THEN LongDiv(0, num, den, 3)
                    ELSE -LongDiv(0, -num, den, 3)

\* sigma * np.sqrt(T) in units of 1/SigScale (sigma in 1/SigScale, T in 1/Q)
SigmaSqrtT(sigma, T) ==
    LET s == Sqrt(T)
    IN  ((sigma \div 1000) * s) \div 10 + ((sigma % 1000) * s) \div Q

\* sigma ** 2 in units of 1/Q
SigmaSquared(sigma) ==
    LET m == sigma \div 1000
    IN  (m * m) \div 100

(***************************************************************************)
(* OptionsAnalyzer                                                         *)
(***************************************************************************)

OptionTypes == {"call", "put"}

\* K * np.exp(-r * T), in cents
Discounted(K, T, r) == RDiv(K * Exp(RDiv(-r * T, Q)), Q)

\* d1 of line 24, in units of 1/Q
D1(S, K, T, r, sigma) ==
    Ratio(Log(RDiv(S * Q, K)) + ((r + SigmaSquared(sigma) \div 2) * T) \div Q,
          SigmaSqrtT(sigma, T))

\* d2 of line 25, in units of 1/Q
D2(S, K, T, r, sigma) == D1(S, K, T, r, sigma) - RDiv(SigmaSqrtT(sigma, T), 100)

\* the return of lines 26-29: the call and the put formula as the code has them
BsFormula(S, K, T, r, sigma, option_type) ==
    LET d1 == D1(S, K, T, r, sigma)
        d2 == D2(S, K, T, r, sigma)
    IN  IF option_type = "call"
        THEN RDiv(S * NormCdf(d1), Q) - RDiv(Discounted(K, T, r) * NormCdf(d2), Q)
        ELSE RDiv(Discounted(K, T, r) * NormCdf(-d2), Q) - RDiv(S * NormCdf(-d2), Q)

\* the return of line 21: the option's value at expiry
ExpiryValue(S, K, option_type) ==
    IF option_type = "call" THEN Max(0, S - K) ELSE Max(0, K - S)

\* the return of line 23: the option's value at zero volatility
ZeroVolValue(S, K, T, r, option_type) ==
    IF option_type = "call" THEN Max(0, S - Discounted(K, T, r))
                            ELSE Max(0, Discounted(K, T, r) - S)

\* the two guards of _bs_price in the other order
BsBranchSigmaFirst(T, sigma) ==
    IF sigma <= 0 THEN "zero_vol" ELSE IF T <= 0 THEN "expiry" ELSE "formula"

\* which return statement of _bs_price the arguments reach
BsBranch(T, sigma) ==
    IF T <= 0 THEN "expiry" ELSE IF sigma <= 0 THEN "zero_vol" ELSE "formula"

\* OptionsAnalyzer._bs_price, in cents
BsPrice(S, K, T, r, sigma, option_type) ==
    CASE BsBranch(T, sigma) = "expiry"   -> ExpiryValue(S, K, option_type)
      [] BsBranch(T, sigma) = "zero_vol" -> ZeroVolValue(S, K, T, r, option_type)
      [] OTHER                           -> BsFormula(S, K, T, r, sigma, option_type)

\* the intrinsic value of line 39, in cents
Intrinsic(S, K, option_type) ==
    IF option_type = "call" THEN Max(0, S - K) ELSE Max(0, K - S)

\* the 1e-12 of line 41 in cents: below half a cent, so it rounds to none
PriceEps == 0

\* the guard of line 41 with < in place of <=
AtOrBelowIntrinsicStrict(market_price, S, K, option_type) ==
    market_price < Intrinsic(S, K, option_type) + PriceEps

\* the guard of line 41
AtOrBelowIntrinsic(market_price, S, K, option_type) ==
    market_price <= Intrinsic(S, K, option_type) + PriceEps

\* low, high = 1e-6, 5.0 and tol = 1e-6, max_iter = 100
SigLow == 1
SigHigh == 5000000
Tol == 1
MaxIter == 100

\* objective(sig) of lines 44-45, in cents
Objective(sig, market_price, S, K, T, r, option_type) ==
    BsPrice(S, K, T, r, sig, option_type) - market_price

Sign(x) == IF x > 0 THEN 1 ELSE IF x < 0 THEN -1 ELSE 0

RECURSIVE Bisect(_, _, _, _, _, _, _, _, _, _, _)
\* The iteration of scipy.optimize.brentq on a bracket [a, b] across which the
\* objective changes sign (fa, fb its values at the ends): the bracket is
\* halved, keeping the sign change, until it is no wider than xtol or the
\* objective is zero at the midpoint; after maxiter iterations brentq raises.
Bisect(a, b, fa, fb, iter, market_price, S, K, T, r, option_type) ==
    IF b - a <= Tol
    THEN [raised |-> FALSE, root |-> IF Abs(fa) <= Abs(fb) THEN a ELSE b]
    ELSE IF iter >= MaxIter THEN [raised |-> TRUE, root |-> 0]
    ELSE LET m  == (a + b) \div 2
             fm == Objective(m, market_price, S, K, T, r, option_type)
         IN  IF fm = 0 THEN [raised |-> FALSE, root |-> m]
             ELSE IF Sign(fm) = Sign(fa)
             THEN Bisect(m, b, fm, fb, iter + 1, market_price, S, K, T, r, option_type)
             ELSE Bisect(a, m, fa, fm, iter + 1, market_price, S, K, T, r, option_type)

\* brentq(objective, low, high, xtol=tol, maxiter=max_iter) of line 51: a zero of
\* the objective at an end of the bracket is returned at once
Brentq(market_price, S, K, T, r, option_type) ==
    LET fa == Objective(SigLow, market_price, S, K, T, r, option_type)
        fb == Objective(SigHigh, market_price, S, K, T, r, option_type)
    IN  IF fa = 0 THEN [raised |-> FALSE, root |-> SigLow]
        ELSE IF fb = 0 THEN [raised |-> FALSE, root |-> SigHigh]
        ELSE Bisect(SigLow, SigHigh, fa, fb, 0, market_price, S, K, T, r, option_type)

\* lines 48-54: the bracket test, the root finder, and the except clause
SolveVol(market_price, S, K, T, r, option_type) ==
    IF Objective(SigLow, market_price, S, K, T, r, option_type)
         * Objective(SigHigh, market_price, S, K, T, r, option_type) > 0
    THEN NaN
    ELSE LET res == Brentq(market_price, S, K, T, r, option_type)
         IN  IF res.raised THEN NaN ELSE Num(res.root)

\* OptionsAnalyzer.implied_volatility_from_price: market_price is NaN or
\* Num(cents); the result is NaN or Num(volatility in 1/SigScale)
ImpliedVolatilityFromPrice(market_price, S, K, T, r, option_type) ==
    IF IsNaN(market_price) \/ Val(market_price) <= 0 THEN NaN
    ELSE IF AtOrBelowIntrinsic(Val(market_price), S, K, option_type) THEN NaN
    ELSE SolveVol(Val(market_price), S, K, T, r, option_type)

(***************************************************************************)
(* pandas.DataFrame, as far as DataLoader uses it: index labels, column    *)
(* labels and rows of cells, every label and cell a string; NA is a        *)
(* missing cell (NaN / None).                                              *)
(***************************************************************************)

NA == "<NA>"

Frame(index, columns, data) ==
    [type |-> "DataFrame", index |-> index, columns |-> columns, data |-> data]

\* pd.DataFrame()
EmptyFrame == Frame(<< >>, << >>, << >>)

\* df.empty: an axis of length 0
IsEmpty(df) == Len(df.index) = 0 \/ Len(df.columns) = 0

Range(seq) == {seq[i] : i \in 1..Len(seq)}

\* the position of a label among the column labels
ColPos(df, name) == CHOOSE j \in 1..Len(df.columns) : df.columns[j] = name

\* the cells of column number j, top to bottom
ColCells(df, j) == [i \in 1..Len(df.index) |-> df.data[i][j]]

RECURSIVE SelectSeq2(_, _)
\* the members of seq whose position is in keep, in order
SelectSeq2(seq, keep) ==
    IF seq = << >> THEN << >>
    ELSE LET n == Len(seq)
             front == SelectSeq2(SubSeq(seq, 1, n - 1), keep)
         IN  IF n \in keep THEN Append(front, seq[n]) ELSE front

\* df.transpose()
Transpose(df) ==
    Frame(df.columns, df.index,
          [j \in 1..Len(df.columns) |-> [i \in 1..Len(df.index) |-> df.data[i][j]]])

\* df[name] = value: the column is overwritten, or appended as the last one
SetColumn(df, name, value) ==
    IF name \in Range(df.columns)
    THEN Frame(df.index, df.columns,
               [i \in 1..Len(df.index) |->
                   [j \in 1..Len(df.columns) |->
                       IF df.columns[j] = name THEN value ELSE df.data[i][j]]])
    ELSE Frame(df.index, Append(df.columns, name),
               [i \in 1..Len(df.index) |-> Append(df.data[i], value)])

\* df.dropna(axis=0, how='all'): the rows with every cell missing are dropped
DropNaRowsAll(df) ==
    LET keep == {i \in 1..Len(df.index) :
                    \E j \in 1..Len(df.columns) : df.data[i][j] # NA}
    IN  Frame(SelectSeq2(df.index, keep), df.columns, SelectSeq2(df.data, keep))

\* df.dropna(axis=1, how='all'): the columns with every cell missing are dropped
DropNaColumnsAll(df) ==
    LET keep == {j \in 1..Len(df.columns) :
                    \E i \in 1..Len(df.index) : df.data[i][j] # NA}
    IN  Frame(df.index, SelectSeq2(df.columns, keep),
              [i \in 1..Len(df.index) |-> SelectSeq2(df.data[i], keep)])

\* the labels 0, 1, 2, ... of a RangeIndex
RangeLabels == << "0", "1", "2", "3" >>

\* df.reset_index(): the index becomes the first column, named "index"
\* (the caller sees ValueError when a column has that name already)
ResetIndex(df) ==
    Frame(SubSeq(RangeLabels, 1, Len(df.index)), << "index" >> \o df.columns,
          [i \in 1..Len(df.index) |-> << df.index[i] >> \o df.data[i]])

(***************************************************************************)
(* DataLoader                                                              *)
(***************************************************************************)

\* _get_top_tickers
TopTickers ==
    << "AAPL", "MSFT", "GOOGL", "AMZN", "NVDA", "TSLA", "BRK-B", "META", "V", "JPM" >>

\* valid_intervals of line 28
ValidIntervals ==
    << "1d", "5d", "1mo", "3mo", "6mo", "1y", "2y", "5y", "10y", "ytd", "max" >>

\* A Python value given as ticker: a str with its text, or another type
StrValue(text) == [isStr |-> TRUE, text |-> text]
NonStrValue(repr, truthy) == [isStr |-> FALSE, text |-> repr, truthy |-> truthy]

\* bool(value) of line 26
Truthy(value) == IF value.isStr THEN value.text # "" ELSE value.truthy

\* A date string: of the shape digits-digits-digits with its three numbers, or
\* of another shape
DateStr(y, m, d) == [shaped |-> TRUE, y |-> y, m |-> m, d |-> d]
OtherStr == [shaped |-> FALSE, y |-> 0, m |-> 0, d |-> 0]

IsLeap(y) == (y % 4 = 0 /\ y % 100 # 0) \/ y % 400 = 0

DaysInMonth(y, m) ==
    IF m = 2 THEN (IF IsLeap(y) THEN 29 ELSE 28)
    ELSE IF m \in {4, 6, 9, 11} THEN 30 ELSE 31

\* datetime.strptime(s, "%Y-%m-%d"): a day number that orders the dates, or
\* ValueError
Strptime(s) ==
    IF /\ s.shaped
       /\ s.y \in 1..9999
       /\ s.m \in 1..12
       /\ s.d \in 1..DaysInMonth(s.y, s.m)
    THEN [ok |-> TRUE, day |-> (s.y * 12 + s.m) * 31 + s.d]
    ELSE [ok |-> FALSE, day |-> 0]

\* the defaults of _validate_input
DefaultInterval == "1d"
DefaultStart == DateStr(1995, 5, 2)
DefaultEnd == DateStr(1995, 9, 13)

TickerError == "Ticker must be a non-empty string."
IntervalError == "Interval must be one of valid_intervals"
FormatError == "Start and end dates must be in YYYY-MM-DD format."
OrderError == "Start date must be before end date."

Returned(value) == [raised |-> FALSE, value |-> value]
Raised(exc, msg) == [raised |-> TRUE, exc |-> exc, msg |-> msg]

\* line 36 with > in place of >=
StartNotBeforeEndStrict(start, end) == start > end

\* the test of line 36
StartNotBeforeEnd(start, end) == start >= end

\* DataLoader._validate_input
ValidateInput(ticker, interval, start_date, end_date) ==
    IF ~Truthy(ticker) \/ ~ticker.isStr THEN Raised("ValueError", TickerError)
    ELSE IF interval \notin Range(ValidIntervals) THEN Raised("ValueError", IntervalError)
    ELSE IF ~Strptime(start_date).ok \/ ~Strptime(end_date).ok
         THEN Raised("ValueError", FormatError)
    ELSE IF StartNotBeforeEnd(Strptime(start_date).day, Strptime(end_date).day)
         THEN Raised("ValueError", OrderError)
    ELSE Returned(TRUE)

\* What yfinance answers to one request: an exception, or a value
SourceRaises == [raises |-> TRUE]
SourceGives(value) == [raises |-> FALSE, value |-> value]

\* lines 116-119 with the dropna along the rows (axis=0)
FinancialsTableRows(raw_data, ticker) ==
    ResetIndex(DropNaRowsAll(SetColumn(Transpose(raw_data), "Symbol", ticker.text)))

\* lines 116-119: transpose, the Symbol column, dropna(axis=1, how='all'),
\* reset_index
FinancialsTable(raw_data, ticker) ==
    ResetIndex(DropNaColumnsAll(SetColumn(Transpose(raw_data), "Symbol", ticker.text)))

\* DataLoader.download_financials; feed is what yf.Ticker(ticker).financials
\* answers if it is asked
DownloadFinancials(ticker, feed) ==
    IF ValidateInput(ticker, DefaultInterval, DefaultStart, DefaultEnd).raised
    THEN Returned(EmptyFrame)
    ELSE IF feed.raises THEN Returned(EmptyFrame)
    ELSE IF IsEmpty(feed.value) THEN Returned(EmptyFrame)
    ELSE IF "index" \in Range(feed.value.index) THEN Returned(EmptyFrame)
    ELSE Returned(FinancialsTable(feed.value, ticker))

\* {} and None
EmptyDict == [type |-> "dict"]
None == [type |-> "NoneType"]

\* df[names]: the named columns, in that order (KeyError if one is missing)
HasColumns(df, names) == Range(names) \subseteq Range(df.columns)

SelectColumns(df, names) ==
    Frame(df.index, names,
          [i \in 1..Len(df.index) |->
              [k \in 1..Len(names) |-> df.data[i][ColPos(df, names[k])]]])

\* df.dropna(): the rows with a missing cell are dropped
DropNaRowsAny(df) ==
    LET keep == {i \in 1..Len(df.index) :
                    \A j \in 1..Len(df.columns) : df.data[i][j] # NA}
    IN  Frame(SelectSeq2(df.index, keep), df.columns, SelectSeq2(df.data, keep))

\* df.reset_index(drop=True)
ResetIndexDrop(df) ==
    Frame(SubSeq(RangeLabels, 1, Len(df.index)), df.columns, df.data)

\* df[name] = values, a list-like as long as the frame
SetColumnValues(df, name, values) ==
    Frame(df.index, Append(df.columns, name),
          [i \in 1..Len(df.index) |-> Append(df.data[i], values[i])])

\* pd.concat of frames with the same columns
Concat(frames) ==
    IF Len(frames) = 1 THEN frames[1]
    ELSE Frame(frames[1].index \o frames[2].index, frames[1].columns,
               frames[1].data \o frames[2].data)

\* DataLoader.download_history_data; feed is what yf.Ticker(ticker).history
\* answers if it is asked
DownloadHistoryData(ticker, interval, start_date, end_date, feed) ==
    IF ValidateInput(ticker, interval, start_date, end_date).raised
    THEN Returned(EmptyDict)
    ELSE IF feed.raises THEN Returned(EmptyDict)
    ELSE IF IsEmpty(feed.value) THEN Returned(EmptyFrame)
    ELSE Returned(feed.value)

MarketColumns == << "Open", "High", "Low", "Close", "Volume" >>

\* DataLoader.market_data; feed is what yf.Ticker(ticker).history answers if it
\* is asked.  Line 65 assigns the whole index of raw_data: ValueError, caught
\* at line 70, when the dropna of line 63 removed a row.
MarketData(ticker, interval, start_date, end_date, feed) ==
    IF ValidateInput(ticker, interval, start_date, end_date).raised
    THEN Returned(EmptyFrame)
    ELSE IF feed.raises THEN Returned(EmptyFrame)
    ELSE IF IsEmpty(feed.value) THEN Returned(EmptyFrame)
    ELSE IF ~HasColumns(feed.value, MarketColumns) THEN Returned(EmptyFrame)
    ELSE LET data == SetColumn(DropNaRowsAny(SelectColumns(feed.value, MarketColumns)),
                               "Symbol", ticker.text)
         IN  IF Len(data.index) # Len(feed.value.index) THEN Returned(EmptyFrame)
             ELSE Returned(DropNaRowsAny(ResetIndexDrop(
                      SetColumnValues(data, "Date", feed.value.index))))

OptionColumns ==
    << "contractSymbol", "strike", "lastPrice", "bid", "ask", "volume", "openInterest" >>

\* lines 85-95 for one side of the chain
StandardizedSide(opt_type, opt_data, ticker) ==
    SetColumn(SetColumn(DropNaRowsAny(SelectColumns(opt_data, OptionColumns)),
                        "Type", opt_type),
              "Ticker", ticker.text)

\* DataLoader.download_options_data; feed is what yf.Ticker(ticker).option_chain()
\* answers if it is asked: None, or a chain with its calls and puts
DownloadOptionsData(ticker, feed) ==
    IF ValidateInput(ticker, DefaultInterval, DefaultStart, DefaultEnd).raised
    THEN Returned(EmptyFrame)
    ELSE IF feed.raises THEN Returned(EmptyFrame)
    ELSE IF feed.value = None THEN Returned(EmptyFrame)
    ELSE LET calls == feed.value.calls
             puts  == feed.value.puts
         IN  IF ~IsEmpty(calls) /\ ~HasColumns(calls, OptionColumns)
             THEN Returned(EmptyFrame)
             ELSE IF ~IsEmpty(puts) /\ ~HasColumns(puts, OptionColumns)
             THEN Returned(EmptyFrame)
             ELSE LET standardized ==
                          (IF IsEmpty(calls) THEN << >>
                           ELSE << StandardizedSide("calls", calls, ticker) >>)
                          \o (IF IsEmpty(puts) THEN << >>
                              ELSE << StandardizedSide("puts", puts, ticker) >>)
                  IN  IF standardized = << >> THEN Returned(EmptyFrame)
                      ELSE Returned(DropNaRowsAny(ResetIndexDrop(Concat(standardized))))

TickerData(market_data, options_data, financials) ==
    [type |-> "TickerData", market_data |-> market_data,
     options_data |-> options_data, financials |-> financials]

\* download_all_data without its own validation (line 128), leaving it to
\* the three methods it calls
DownloadAllDataUnvalidated(ticker, interval, start_date, end_date, history, chain, financials) ==
    Returned(TickerData(
        MarketData(ticker, interval, start_date, end_date, history).value,
        DownloadOptionsData(ticker, chain).value,
        DownloadFinancials(ticker, financials).value))

\* DataLoader.download_all_data; the three feeds are what the source answers to
\* the three requests
DownloadAllData(ticker, interval, start_date, end_date, history, chain, financials) ==
    IF ValidateInput(ticker, interval, start_date, end_date).raised
    THEN Returned(TickerData(EmptyFrame, EmptyFrame, EmptyFrame))
    ELSE Returned(TickerData(
             MarketData(ticker, interval, start_date, end_date, history).value,
             DownloadOptionsData(ticker, chain).value,
             DownloadFinancials(ticker, financials).value))

NoCall == [method |-> "none"]

\* no DataLoader in this run
LdIdle ==
    /\ source = "yfinance"
    /\ tickers = TopTickers
    /\ ldCall = NoCall
    /\ ldRet = NoCall

\* no OptionsAnalyzer call in this run
OptIdle ==
    /\ optPc = "idle"
    /\ optArgs = [S |-> 0, K |-> 0, T |-> 0, r |-> 0, sigma |-> 0, option_type |-> "call"]
    /\ optPrice = NaN
    /\ optMp = NaN
    /\ optVol = NaN
    /\ optDf = [options_df |-> << >>, spot_price |-> 0, r |-> 0,
                now |-> [date |-> 0, midnight |-> TRUE]]
    /\ optOut = << >>

\* no calculate_iv_term_structure call in this run
TsIdle ==
    /\ tsPc = "idle"
    /\ tsArgs = [options_df |-> << >>, agg |-> "median", now |-> [date |-> 0, midnight |-> TRUE]]
    /\ tsOut = << >>

\* no ClassicStrategies call in this run
StIdle ==
    /\ stPc = "idle"
    /\ stArgs = [close |-> << >>, short |-> 1, long |-> 1,
                 window |-> 1, num_std |-> [num |-> 2, den |-> 1]]
    /\ stSignal = << >>

\* no TechnicalIndicators or FinancialAnalysis call in this run
AnIdle ==
    /\ anCall = NoCall
    /\ anRet = NoCall

(***************************************************************************)
(* Series of floats as pandas aggregates them.  A float of a series is NaN *)
(* or Num(x); an average is Num of a fraction [num, den], compared exactly. *)
(***************************************************************************)

Fraction(num, den) == [num |-> num, den |-> den]

\* a == b for two floats given as fractions (False if either is NaN)
FloatEq(a, b) ==
    ~IsNaN(a) /\ ~IsNaN(b) /\ Val(a).num * Val(b).den = Val(b).num * Val(a).den

\* a > b for two floats given as fractions (False if either is NaN)
FloatGt(a, b) ==
    ~IsNaN(a) /\ ~IsNaN(b) /\ Val(a).num * Val(b).den > Val(b).num * Val(a).den

RECURSIVE SumSeq(_)
SumSeq(seq) == IF seq = << >> THEN 0 ELSE seq[1] + SumSeq(Tail(seq))

\* the values of a series that are not NaN, in order
Valid(series) ==
    LET keep == {i \in 1..Len(series) : ~IsNaN(series[i])}
    IN  [k \in 1..Len(SelectSeq2(series, keep)) |-> Val(SelectSeq2(series, keep)[k])]

\* Series.mean() / GroupBy.mean(): the mean of the values that are not NaN
Mean(series) ==
    IF Valid(series) = << >> THEN NaN
    ELSE Num(Fraction(SumSeq(Valid(series)), Len(Valid(series))))

(***************************************************************************)
(* OptionsAnalyzer.calculate_iv_term_structure                             *)
(***************************************************************************)

RECURSIVE SortedSeq(_)
\* the members of a set of integers, ascending
SortedSeq(set) ==
    IF set = {} THEN << >>
    ELSE LET least == CHOOSE x \in set : \A y \in set : x <= y
         IN  << least >> \o SortedSeq(set \ {least})

\* (pd.to_datetime(expiry) - pd.Timestamp.today()).dt.days: whole days from the
\* clock's date and time to the expiry's midnight, rounded down
DaysTo(expiry, now) ==
    IF now.midnight THEN expiry - now.date ELSE expiry - now.date - 1

\* days / 365.25
Years(days) == Fraction(days * 100, 36525)

\* the impliedVolatility cells of the rows of one expiry, in row order
GroupCells(options_df, expiry) ==
    LET keep == {i \in 1..Len(options_df) : options_df[i].expiry = expiry}
    IN  [k \in 1..Len(SelectSeq2(options_df, keep)) |->
            SelectSeq2(options_df, keep)[k].impliedVolatility]

\* OptionsAnalyzer.calculate_iv_term_structure: options_df is the sequence of
\* its rows; line 96 takes grp.mean() on both sides of its conditional
CalculateIvTermStructure(options_df, agg, now) ==
    IF options_df = << >> THEN << >>
    ELSE LET keys == SortedSeq({options_df[i].expiry : i \in 1..Len(options_df)})
         IN  [k \in 1..Len(keys) |->
                [expiry |-> keys[k],
                 column |-> IF agg = "median" THEN "IV_median" ELSE "IV_mean",
                 iv |-> Mean(GroupCells(options_df, keys[k])),
                 time_to_expiry |-> Years(DaysTo(keys[k], now))]]

\* the most rows of an options table
MaxOptionRows == 3

ExpiryDates == {100, 130}
IvCells == {NaN, Num(10), Num(20), Num(60)}
Clocks == {[date |-> 100, midnight |-> FALSE], [date |-> 110, midnight |-> TRUE]}

OptionRows == [expiry : ExpiryDates, impliedVolatility : IvCells]

TsInit ==
    /\ tsPc = "start"
    /\ tsArgs \in [options_df : UNION {[1..n -> OptionRows] : n \in 0..MaxOptionRows},
                   agg : {"median", "mean"},
                   now : Clocks]
    /\ tsOut = << >>
    /\ OptIdle
    /\ LdIdle
    /\ StIdle
    /\ AnIdle

CallCalculateIvTermStructure ==
    /\ tsPc = "start"
    /\ tsOut' = CalculateIvTermStructure(tsArgs.options_df, tsArgs.agg, tsArgs.now)
    /\ tsPc' = "done"
    /\ UNCHANGED << tsArgs, optVars, ldVars, stVars, anVars >>

TsNext == CallCalculateIvTermStructure

SpecTermStructure == TsInit /\ [][TsNext]_vars

(***************************************************************************)
(* ClassicStrategies                                                       *)
(***************************************************************************)

\* Series.rolling(window).mean(): NaN until the window is full and whenever
\* it holds a NaN, else the mean of the last `window` values
RollingMean(close, window) ==
    [i \in 1..Len(close) |->
        IF i >= window /\ \A k \in (i - window + 1)..i : ~IsNaN(close[k])
        THEN Num(Fraction(SumSeq([k \in 1..window |-> Val(close[i - window + k])]), window))
        ELSE NaN]

\* moving_average_crossover with >= in the comparison of line 13
MovingAverageCrossoverGe(close, short, long) ==
    [i \in 1..Len(close) |->
        IF \/ FloatGt(RollingMean(close, short)[i], RollingMean(close, long)[i])
           \/ FloatEq(RollingMean(close, short)[i], RollingMean(close, long)[i])
        THEN 1 ELSE -1]

\* ClassicStrategies.moving_average_crossover: the signal series, row by row
MovingAverageCrossover(close, short, long) ==
    [i \in 1..Len(close) |->
        IF FloatGt(RollingMean(close, short)[i], RollingMean(close, long)[i])
        THEN 1 ELSE -1]

\* Series.rolling(window).std(ddof=0): the population variance
RollingVarPopulation(close, window) ==
    [i \in 1..Len(close) |->
        IF i >= window /\ \A k \in (i - window + 1)..i : ~IsNaN(close[k])
        THEN LET w == [k \in 1..window |-> Val(close[i - window + k])]
             IN  Num(Fraction(window * SumSeq([k \in 1..window |-> w[k] * w[k]])
                                 - SumSeq(w) * SumSeq(w),
                              window * window))
        ELSE NaN]

\* Series.rolling(window).std(), given by its square, the sample variance
\* (ddof=1): NaN until the window is full, whenever it holds a NaN, and for a
\* window of one value; else (n * sum(x^2) - sum(x)^2) / (n * (n - 1))
RollingVar(close, window) ==
    [i \in 1..Len(close) |->
        IF i >= window /\ window > 1 /\ \A k \in (i - window + 1)..i : ~IsNaN(close[k])
        THEN LET w == [k \in 1..window |-> Val(close[i - window + k])]
             IN  Num(Fraction(window * SumSeq([k \in 1..window |-> w[k] * w[k]])
                                 - SumSeq(w) * SumSeq(w),
                              window * (window - 1)))
        ELSE NaN]

\* a - b for two floats given as fractions
FloatSub(a, b) ==
    IF IsNaN(a) \/ IsNaN(b) THEN NaN
    ELSE Num(Fraction(Val(a).num * Val(b).den - Val(b).num * Val(a).den,
                      Val(a).den * Val(b).den))

\* gap > num_std * std, that is Close < min - num_std * std for gap = min - Close
\* and Close > min + num_std * std for gap = Close - min (lines 23-26); std is
\* given by its square var, num_std >= 0 is a fraction; False on a NaN
BeyondBand(gap, num_std, var) ==
    /\ ~IsNaN(gap) /\ ~IsNaN(var)
    /\ Val(gap).num > 0
    /\ Val(gap).num * Val(gap).num * num_std.den * num_std.den * Val(var).den
          > num_std.num * num_std.num * Val(var).num * Val(gap).den * Val(gap).den

\* ClassicStrategies.mean_reversion_bollinger: the signal series, row by row
MeanReversionBollinger(close, window, num_std) ==
    LET min == RollingMean(close, window)
        var == RollingVar(close, window)
        price(i) == IF IsNaN(close[i]) THEN NaN ELSE Num(Fraction(Val(close[i]), 1))
    IN  [i \in 1..Len(close) |->
            IF BeyondBand(FloatSub(min[i], price(i)), num_std, var[i]) THEN 1
            ELSE IF BeyondBand(FloatSub(price(i), min[i]), num_std, var[i]) THEN -1
            ELSE 0]

\* the greatest and the least of a sequence of numbers that is not empty
MaxOf(seq) == CHOOSE x \in Range(seq) : \A y \in Range(seq) : y <= x
MinOf(seq) == CHOOSE x \in Range(seq) : \A y \in Range(seq) : x <= y

\* Series.rolling(window).max(): NaN until the window is full and whenever it
\* holds a NaN, else the greatest of the last `window` values, the row's included
RollingMax(close, window) ==
    [i \in 1..Len(close) |->
        IF i >= window /\ \A k \in (i - window + 1)..i : ~IsNaN(close[k])
        THEN Num(MaxOf([k \in 1..window |-> Val(close[i - window + k])]))
        ELSE NaN]

\* Series.rolling(window).min()
RollingMin(close, window) ==
    [i \in 1..Len(close) |->
        IF i >= window /\ \A k \in (i - window + 1)..i : ~IsNaN(close[k])
        THEN Num(MinOf([k \in 1..window |-> Val(close[i - window + k])]))
        ELSE NaN]

\* a series left where it is
ShiftNone(series, periods) == series

\* Series.shift(periods): every value moves `periods` rows down, NaN fills the top
Shift(series, periods) ==
    [i \in 1..Len(series) |-> IF i <= periods THEN NaN ELSE series[i - periods]]

\* a > b for two floats (False if either is NaN)
NumGt(a, b) == ~IsNaN(a) /\ ~IsNaN(b) /\ Val(a) > Val(b)

\* ClassicStrategies.breakout_strategy: the signal series, row by row
BreakoutStrategy(close, window) ==
    LET rolling_max == RollingMax(close, window)
        rolling_min == RollingMin(close, window)
    IN  [i \in 1..Len(close) |->
            IF NumGt(close[i], Shift(rolling_max, 1)[i]) THEN 1
            ELSE IF NumGt(Shift(rolling_min, 1)[i], close[i]) THEN -1
            ELSE 0]

\* the most rows of market data
MaxBars == 4

\* the Close column: prices, none missing (market_data drops the rows with NaN)
CloseCells == {Num(1), Num(2), Num(3)}
Windows == {1, 2, 3}

\* num_std: a number of standard deviations, none negative
NumStds == {Fraction(0, 1), Fraction(1, 2), Fraction(1, 1), Fraction(2, 1)}

StInit ==
    /\ stPc = "start"
    /\ stArgs \in [close : UNION {[1..n -> CloseCells] : n \in 0..MaxBars},
                   short : Windows, long : Windows,
                   window : Windows, num_std : NumStds]
    /\ stSignal = << >>
    /\ OptIdle
    /\ LdIdle
    /\ TsIdle
    /\ AnIdle

CallMovingAverageCrossover ==
    /\ stPc = "start"
    /\ stSignal' = MovingAverageCrossover(stArgs.close, stArgs.short, stArgs.long)
    /\ stPc' = "done"
    /\ UNCHANGED << stArgs, optVars, ldVars, tsVars, anVars >>

CallMeanReversionBollinger ==
    /\ stPc = "start"
    /\ stSignal' = MeanReversionBollinger(stArgs.close, stArgs.window, stArgs.num_std)
    /\ stPc' = "bollinger"
    /\ UNCHANGED << stArgs, optVars, ldVars, tsVars, anVars >>

CallBreakoutStrategy ==
    /\ stPc = "start"
    /\ stSignal' = BreakoutStrategy(stArgs.close, stArgs.window)
    /\ stPc' = "breakout"
    /\ UNCHANGED << stArgs, optVars, ldVars, tsVars, anVars >>

StNext ==
    \/ CallMovingAverageCrossover
    \/ CallMeanReversionBollinger
    \/ CallBreakoutStrategy

SpecStrategies == StInit /\ [][StNext]_vars

(***************************************************************************)
(* TechnicalIndicators and FinancialAnalysis.  Their tables are frames     *)
(* whose cells are floats, NaN or Num(x), and whose index labels are       *)
(* strings.                                                                *)
(***************************************************************************)

\* a list given where a label is expected, such as ['Close']
ListValue(repr) == NonStrValue(repr, TRUE)

\* key in index (pandas Index.__contains__): the key is hashed first, which
\* raises TypeError for a list, and then looked up among the labels
IndexContains(index, key) ==
    IF key.isStr THEN Returned(key.text \in Range(index))
    ELSE Raised("TypeError", "unhashable type: 'list'")

\* the row of a frame that has the index label `label` (labels are unique)
RowOf(df, label) == CHOOSE i \in 1..Len(df.index) : df.index[i] = label

\* df[name] aligned to another index: the cell of the row labelled `label`,
\* NaN if the frame has no such row
CellAt(df, name, label) ==
    IF label \in Range(df.index) THEN df.data[RowOf(df, label)][ColPos(df, name)]
    ELSE NaN

\* (close - lower) / (upper - lower) of line 78: NaN if an operand is, else the
\* quotient as a fraction (den = 0 stands for the inf or nan of a float
\* division by 0.0)
PercentB(close, lower, upper) ==
    IF IsNaN(close) \/ IsNaN(lower) \/ IsNaN(upper) THEN NaN
    ELSE Num(Fraction(Val(close) - Val(lower), Val(upper) - Val(lower)))

\* lines 77-78: the table indexed like market_data with the column bb_percent_b
BollingerPercentBTable(market_data, bollinger_data) ==
    Frame(market_data.index, << "bb_percent_b" >>,
          [i \in 1..Len(market_data.index) |->
              << PercentB(market_data.data[i][ColPos(market_data, "Close")],
                          CellAt(bollinger_data, "bb_lower", market_data.index[i]),
                          CellAt(bollinger_data, "bb_upper", market_data.index[i])) >>])

\* TechnicalIndicators.compute_bollinger_percent_b; line 74 tests the list
\* ['Close'], not the label 'Close', against market_data.columns
ComputeBollingerPercentB(market_data, bollinger_data) ==
    IF "bb_upper" \notin Range(bollinger_data.columns) THEN Returned(bollinger_data)
    ELSE IF "bb_lower" \notin Range(bollinger_data.columns) THEN Returned(bollinger_data)
    ELSE LET found == IndexContains(market_data.columns, ListValue("['Close']"))
         IN  IF found.raised THEN found
             ELSE IF ~found.value THEN Returned(market_data)
             ELSE Returned(BollingerPercentBTable(market_data, bollinger_data))

\* the most rows of a table of market data and of its Bollinger bands
MaxTableRows == 2

\* the index labels of a table of n rows
DateLabels == << "d1", "d2", "d3" >>

MarketLabels == {<< "Close" >>, << "Open" >>}
PriceCells == {Num(1), Num(2), Num(3)}

\* market data of n rows
MarketTables(n) ==
    {Frame(SubSeq(DateLabels, 1, n), columns, [i \in 1..n |-> << cells[i] >>]) :
        columns \in MarketLabels, cells \in [1..n -> PriceCells]}

BandLabels == << "bb_upper", "bb_middle", "bb_lower" >>

\* the columns a table of bands has: the positions of BandLabels kept
BandColumns == {{1, 2, 3}, {1, 2}, {2, 3}, {2}}

\* a row of bands: upper, middle, lower (NaN in the warm-up rows)
BandRows == {<< NaN, NaN, NaN >>, << Num(3), Num(2), Num(1) >>,
             << Num(4), Num(3), Num(2) >>, << Num(2), Num(2), Num(2) >>}

\* Bollinger data of n rows
BollingerTables(n) ==
    {Frame(SubSeq(DateLabels, 1, n), SelectSeq2(BandLabels, keep),
           [i \in 1..n |-> SelectSeq2(rows[i], keep)]) :
        keep \in BandColumns, rows \in [1..n -> BandRows]}

\* df[name]: the cells of the column, KeyError if no column has the label
GetColumn(df, name) ==
    IF name \in Range(df.columns) THEN Returned(ColCells(df, ColPos(df, name)))
    ELSE Raised("KeyError", name)

\* (a > b).astype(int): 1 where the comparison holds, 0 where it does not,
\* which includes a NaN on either side
GtAsInt(a, b) == IF NumGt(a, b) THEN 1 ELSE 0

\* pd.Series(values, index=index)
Series(index, values) == [type |-> "Series", index |-> index, values |-> values]

\* FinancialAnalysis.compute_piotroski; line 120 reads the column
\* 'Operating Case Flow'
ComputePiotroski(financial) ==
    LET net_income == GetColumn(financial, "Net Income")
        cash_flow  == GetColumn(financial, "Operating Cash Flow")
        case_flow  == GetColumn(financial, "Operating Case Flow")
    IN  IF net_income.raised THEN net_income
        ELSE IF cash_flow.raised THEN cash_flow
        ELSE IF case_flow.raised THEN case_flow
        ELSE Returned(Series(financial.index,
                 [i \in 1..Len(financial.index) |->
                     0 + GtAsInt(net_income.value[i], Num(0))
                       + GtAsInt(cash_flow.value[i], Num(0))
                       + GtAsInt(case_flow.value[i], net_income.value[i])]))

\* the most rows (reporting dates) of a table of financials
MaxReports == 2

\* the columns of a table of financials
StatementLabels == {<< "Net Income", "Operating Cash Flow" >>,
                    << "Net Income", "Operating Cash Flow", "Operating Case Flow" >>,
                    << "Net Income" >>,
                    << "Operating Cash Flow" >>}

AmountCells == {Num(-1), Num(0), Num(2)}

\* the tables of financials of n rows
StatementTables(n) ==
    UNION {{Frame(SubSeq(DateLabels, 1, n), columns, data) :
               data \in [1..n -> [1..Len(columns) -> AmountCells]]} :
           columns \in StatementLabels}

AnInit ==
    /\ anCall = NoCall
    /\ anRet = NoCall
    /\ OptIdle
    /\ LdIdle
    /\ TsIdle
    /\ StIdle

CallComputeBollingerPercentB ==
    /\ anCall = NoCall
    /\ \E n \in 0..MaxTableRows :
          \E market_data \in MarketTables(n), bollinger_data \in BollingerTables(n) :
              /\ anCall' = [method |-> "compute_bollinger_percent_b",
                            market_data |-> market_data,
                            bollinger_data |-> bollinger_data]
              /\ anRet' = ComputeBollingerPercentB(market_data, bollinger_data)
    /\ UNCHANGED << optVars, ldVars, tsVars, stVars >>

CallComputePiotroski ==
    /\ anCall = NoCall
    /\ \E n \in 0..MaxReports :
          \E financial \in StatementTables(n) :
              /\ anCall' = [method |-> "compute_piotroski", financial |-> financial]
              /\ anRet' = ComputePiotroski(financial)
    /\ UNCHANGED << optVars, ldVars, tsVars, stVars >>

\* the caller takes the result
AnTakeResult ==
    /\ anCall # NoCall
    /\ anCall' = NoCall
    /\ anRet' = NoCall
    /\ UNCHANGED << optVars, ldVars, tsVars, stVars >>

AnNext ==
    \/ CallComputeBollingerPercentB
    \/ CallComputePiotroski
    \/ AnTakeResult

SpecAnalysis == AnInit /\ [][AnNext]_vars

(***************************************************************************)
(* The DataLoader as a state machine: after construction any method is     *)
(* called with any arguments, the data source answering its request in any *)
(* way; the caller then takes the result and the loader is idle again.     *)
(***************************************************************************)

TickerArgs ==
    {StrValue("AAPL"), StrValue(""), NonStrValue("None", FALSE), NonStrValue("123", TRUE)}
IntervalArgs == {"1d", "max", "1h"}
DateArgs ==
    {DateStr(1995, 5, 2), DateStr(1995, 9, 13), DateStr(1996, 2, 29),
     DateStr(1995, 2, 29), OtherStr}

\* the most metrics and the most reporting dates of a financials table
MaxMetrics == 2
MaxDates == 2

MetricNames == << "Total Revenue", "EmptyMetric", "Net Income" >>
ReportDates == << "2023-05-10", "2023-05-11", "2023-05-12" >>

\* yf.Ticker(ticker).financials: metrics as rows, dates as columns, each cell
\* a number or missing
FinancialsTables ==
    UNION {
        {Frame(SubSeq(MetricNames, 1, m), SubSeq(ReportDates, 1, d), cells) :
            cells \in [1..m -> [1..d -> {"100", NA}]]} :
        m \in 0..MaxMetrics, d \in 0..MaxDates}

\* the financials table of test/unit_test.py: EmptyMetric has no value
TestFinancials ==
    Frame(<< "Total Revenue", "Net Income", "EmptyMetric" >>,
          << "2023-05-10", "2023-05-11" >>,
          << << "100", "200" >>, << "100", "200" >>, << NA, NA >> >>)

FinancialsFeeds ==
    {SourceRaises, SourceGives(TestFinancials)}
        \cup {SourceGives(t) : t \in FinancialsTables}

HistoryColumns == << "Open", "High", "Low", "Close", "Volume", "Dividends" >>

\* yf.Ticker(ticker).history: nothing, two full rows, a row with no Close, or
\* a table without its Volume column
HistoryFeeds ==
    { SourceRaises,
      SourceGives(EmptyFrame),
      SourceGives(Frame(<< "1995-05-02", "1995-05-03" >>, HistoryColumns,
                        << << "10", "12", "9", "11", "500", "0" >>,
                           << "11", "13", "10", "12", "600", "0" >> >>)),
      SourceGives(Frame(<< "1995-05-02", "1995-05-03" >>, HistoryColumns,
                        << << "10", "12", "9", "11", "500", "0" >>,
                           << "11", "13", "10", NA, "600", "0" >> >>)),
      SourceGives(Frame(<< "1995-05-02" >>, << "Open", "High", "Low", "Close" >>,
                        << << "10", "12", "9", "11" >> >>)) }

ChainColumns ==
    << "contractSymbol", "strike", "lastPrice", "bid", "ask", "volume",
       "openInterest", "impliedVolatility" >>

\* one side of an option chain: no contract, a full row, a row with no volume,
\* or a table without its bid column
ChainSides ==
    { EmptyFrame,
      Frame(<< "0" >>, ChainColumns,
            << << "AAPL240119C00100000", "100", "5", "4", "6", "10", "20", "0.3" >> >>),
      Frame(<< "0" >>, ChainColumns,
            << << "AAPL240119C00100000", "100", "5", "4", "6", NA, "20", "0.3" >> >>),
      Frame(<< "0" >>, << "contractSymbol", "strike", "lastPrice" >>,
            << << "AAPL240119C00100000", "100", "5" >> >>) }

OptionFeeds ==
    {SourceRaises, SourceGives(None)}
        \cup {SourceGives([calls |-> c, puts |-> q]) : c \in ChainSides, q \in ChainSides}

\* the feeds tried together by download_all_data
AllDataHistory ==
    {f \in HistoryFeeds : f.raises \/ Len(f.value.index) = 2}
AllDataChains ==
    {f \in OptionFeeds : f.raises \/ f.value = None
                            \/ (f.value.calls = f.value.puts /\ HasColumns(f.value.calls, ChainColumns))}
AllDataFinancials == {SourceRaises, SourceGives(TestFinancials)}

\* DataLoader.__init__: the state after construction
LdInit ==
    /\ source = "yfinance"
    /\ tickers = TopTickers
    /\ ldCall = NoCall
    /\ ldRet = NoCall
    /\ OptIdle
    /\ TsIdle
    /\ StIdle
    /\ AnIdle

CallValidateInput ==
    /\ ldCall = NoCall
    /\ \E ticker \in TickerArgs, interval \in IntervalArgs,
          start_date \in DateArgs, end_date \in DateArgs :
          /\ ldCall' = [method |-> "_validate_input", ticker |-> ticker,
                        interval |-> interval, start_date |-> start_date,
                        end_date |-> end_date]
          /\ ldRet' = ValidateInput(ticker, interval, start_date, end_date)
    /\ UNCHANGED << source, tickers, optVars, tsVars, stVars, anVars >>

CallDownloadHistoryData ==
    /\ ldCall = NoCall
    /\ \E ticker \in TickerArgs, interval \in IntervalArgs,
          start_date \in DateArgs, end_date \in DateArgs, feed \in HistoryFeeds :
          /\ ldCall' = [method |-> "download_history_data", ticker |-> ticker,
                        interval |-> interval, start_date |-> start_date,
                        end_date |-> end_date, feed |-> feed]
          /\ ldRet' = DownloadHistoryData(ticker, interval, start_date, end_date, feed)
    /\ UNCHANGED << source, tickers, optVars, tsVars, stVars, anVars >>

CallMarketData ==
    /\ ldCall = NoCall
    /\ \E ticker \in TickerArgs, interval \in IntervalArgs,
          start_date \in DateArgs, end_date \in DateArgs, feed \in HistoryFeeds :
          /\ ldCall' = [method |-> "market_data", ticker |-> ticker,
                        interval |-> interval, start_date |-> start_date,
                        end_date |-> end_date, feed |-> feed]
          /\ ldRet' = MarketData(ticker, interval, start_date, end_date, feed)
    /\ UNCHANGED << source, tickers, optVars, tsVars, stVars, anVars >>

CallDownloadOptionsData ==
    /\ ldCall = NoCall
    /\ \E ticker \in TickerArgs, feed \in OptionFeeds :
          /\ ldCall' = [method |-> "download_options_data", ticker |-> ticker,
                        feed |-> feed]
          /\ ldRet' = DownloadOptionsData(ticker, feed)
    /\ UNCHANGED << source, tickers, optVars, tsVars, stVars, anVars >>

\* download_financials keeping the ticker it was asked for in self.tickers
CallDownloadFinancialsRemembering ==
    /\ ldCall = NoCall
    /\ \E ticker \in TickerArgs, feed \in FinancialsFeeds :
          /\ ldCall' = [method |-> "download_financials", ticker |-> ticker,
                        feed |-> feed]
          /\ ldRet' = DownloadFinancials(ticker, feed)
          /\ tickers' = Append(tickers, ticker)
    /\ UNCHANGED << source, optVars, tsVars, stVars, anVars >>

CallDownloadFinancials ==
    /\ ldCall = NoCall
    /\ \E ticker \in TickerArgs, feed \in FinancialsFeeds :
          /\ ldCall' = [method |-> "download_financials", ticker |-> ticker,
                        feed |-> feed]
          /\ ldRet' = DownloadFinancials(ticker, feed)
    /\ UNCHANGED << source, tickers, optVars, tsVars, stVars, anVars >>

CallDownloadAllData ==
    /\ ldCall = NoCall
    /\ \E ticker \in TickerArgs, interval \in IntervalArgs,
          start_date \in DateArgs, end_date \in DateArgs,
          history \in AllDataHistory, chain \in AllDataChains,
          financials \in AllDataFinancials :
          /\ ldCall' = [method |-> "download_all_data", ticker |-> ticker,
                        interval |-> interval, start_date |-> start_date,
                        end_date |-> end_date, history |-> history,
                        chain |-> chain, financials |-> financials]
          /\ ldRet' = DownloadAllData(ticker, interval, start_date, end_date,
                                      history, chain, financials)
    /\ UNCHANGED << source, tickers, optVars, tsVars, stVars, anVars >>

\* the caller takes the result; the loader keeps nothing of the call
TakeResult ==
    /\ ldCall # NoCall
    /\ ldCall' = NoCall
    /\ ldRet' = NoCall
    /\ UNCHANGED << source, tickers, optVars, tsVars, stVars, anVars >>

LdNext ==
    \/ CallValidateInput
    \/ CallDownloadHistoryData
    \/ CallMarketData
    \/ CallDownloadOptionsData
    \/ CallDownloadFinancials
    \/ CallDownloadAllData
    \/ TakeResult

(***************************************************************************)
(* The options calls as a state machine: the arguments are drawn in the    *)
(* initial state, _bs_price is applied to them, and then                   *)
(* implied_volatility_from_price is applied to the price it returned or to *)
(* a quoted market price.                                                  *)
(***************************************************************************)

\* spot and strike in cents
\* line 69 with the distance to the expiry in place of 0.0 for a past expiry
TimeToExpiryAbs(days) == RDiv(Abs(days) * Q * 100, 36525)

\* time_to_expiry of lines 68-69 in 1/Q: days / 365.25, and 0.0 if that is
\* negative
TimeToExpiry(days) == IF days < 0 THEN 0 ELSE RDiv(days * Q * 100, 36525)

\* the mid of lines 64-66, in cents: (bid + ask) / 2.0 where mid and ask are
\* not missing (NaN if bid is), else lastPrice
MidPrice(row) ==
    IF ~IsNaN(row.mid) /\ ~IsNaN(row.ask)
    THEN (IF IsNaN(row.bid) THEN NaN ELSE Num(RDiv(Val(row.bid) + Val(row.ask), 2)))
    ELSE row.lastPrice

\* OptionsAnalyzer.compute_implied_vols: options_df is the sequence of its
\* rows (it has the columns the method reads), r is self.r; an empty table
\* gives pd.DataFrame()
ComputeImpliedVols(options_df, spot_price, r, now) ==
    IF options_df = << >> THEN << >>
    ELSE [i \in 1..Len(options_df) |->
            LET row == options_df[i]
                T   == TimeToExpiry(DaysTo(row.expiry, now))
            IN  [mid |-> MidPrice(row), bid |-> row.bid, ask |-> row.ask,
                 lastPrice |-> row.lastPrice, expiry |-> row.expiry,
                 strike |-> row.strike, Type |-> row.Type,
                 time_to_expiry |-> T,
                 impliedVolatility |->
                     ImpliedVolatilityFromPrice(MidPrice(row), spot_price, row.strike,
                         T, r, IF row.Type = "calls" THEN "call" ELSE "put")]]

\* the most rows of the options table given to compute_implied_vols
MaxQuotes == 2

\* the clock of the call: day 100, at midnight or later in the day
QuoteClocks == {[date |-> 100, midnight |-> TRUE], [date |-> 100, midnight |-> FALSE]}

\* expiry dates: yesterday, today, in 90 days
QuoteExpiries == {99, 100, 190}

\* mid and ask of a row, in cents: either missing, or both quoted
QuoteSides == {[mid |-> NaN, ask |-> Num(800)], [mid |-> Num(500), ask |-> NaN],
               [mid |-> Num(500), ask |-> Num(800)]}

QuoteRows ==
    {[mid |-> q.mid, bid |-> Num(400), ask |-> q.ask, lastPrice |-> Num(1500),
      expiry |-> e, strike |-> 10000, Type |-> t] :
        q \in QuoteSides, e \in QuoteExpiries, t \in {"calls", "puts"}}

Spots == {9000, 10000, 11000}
Strikes == {10000}
\* years to expiry in 1/Q: expired, expiring now, a quarter, a year
Expiries == {-2500, 0, 2500, 10000}
\* the risk-free rate in 1/Q
Rates == {-500, 0, 100, 500}
\* volatilities in 1/SigScale, the ends of the solver's bracket among them
Sigmas == {-100000, 0, 1, 100000, 200000, 1000000, 5000000}
\* quoted market prices in cents
MarketPrices == {NaN, Num(-100), Num(0), Num(500), Num(1000), Num(1500)}

OptInit ==
    /\ LdIdle
    /\ TsIdle
    /\ StIdle
    /\ AnIdle
    /\ optPrice = NaN
    /\ optMp = NaN
    /\ optVol = NaN
    /\ optOut = << >>
    /\ \/ /\ optPc = "start"
          /\ optArgs \in [S : Spots, K : Strikes, T : Expiries, r : Rates,
                          sigma : Sigmas, option_type : OptionTypes]
          /\ optDf = [options_df |-> << >>, spot_price |-> 0, r |-> 0,
                      now |-> [date |-> 0, midnight |-> TRUE]]
       \/ /\ optPc = "table"
          /\ optArgs = [S |-> 0, K |-> 0, T |-> 0, r |-> 0, sigma |-> 0,
                        option_type |-> "call"]
          /\ optDf \in [options_df : UNION {[1..n -> QuoteRows] : n \in 0..MaxQuotes},
                        spot_price : {10000}, r : {100}, now : QuoteClocks]

\* price = OptionsAnalyzer._bs_price(S, K, T, r, sigma, option_type)
CallBsPrice ==
    /\ optPc = "start"
    /\ optPrice' = Num(BsPrice(optArgs.S, optArgs.K, optArgs.T, optArgs.r,
                               optArgs.sigma, optArgs.option_type))
    /\ optPc' = "priced"
    /\ UNCHANGED << optArgs, optMp, optVol, optDf, optOut, ldVars, tsVars, stVars, anVars >>

\* vol = OptionsAnalyzer.implied_volatility_from_price(market_price, S, K, T, r,
\* option_type) with the default tol and max_iter
CallImpliedVolatility ==
    /\ optPc = "priced"
    /\ \E market_price \in MarketPrices \cup {optPrice} :
          /\ optMp' = market_price
          /\ optVol' = ImpliedVolatilityFromPrice(market_price, optArgs.S, optArgs.K,
                            optArgs.T, optArgs.r, optArgs.option_type)
    /\ optPc' = "done"
    /\ UNCHANGED << optArgs, optPrice, optDf, optOut, ldVars, tsVars, stVars, anVars >>

\* df = analyzer.compute_implied_vols(options_df, spot_price)
CallComputeImpliedVols ==
    /\ optPc = "table"
    /\ optOut' = ComputeImpliedVols(optDf.options_df, optDf.spot_price, optDf.r,
                                    optDf.now)
    /\ optPc' = "computed"
    /\ UNCHANGED << optArgs, optPrice, optMp, optVol, optDf, ldVars, tsVars, stVars, anVars >>

OptNext == CallBsPrice \/ CallImpliedVolatility \/ CallComputeImpliedVols

SpecOptions == OptInit /\ [][OptNext]_vars

SpecLoader == LdInit /\ [][LdNext]_vars

(***************************************************************************)
(* Properties of the options calls, checked under SpecOptions              *)
(***************************************************************************)

\* max(0, x) as the claims write it
Pos(x) == IF x > 0 THEN x ELSE 0

\* the intrinsic value as the claims state it
ClaimIntrinsic ==
    IF optArgs.option_type = "call" THEN Pos(optArgs.S - optArgs.K)
                                    ELSE Pos(optArgs.K - optArgs.S)

\* C1: implied_volatility_from_price returns NaN whenever the market price is
\* missing, is <= 0, or is <= the option's intrinsic value (max(0, S-K) for a
\* call, max(0, K-S) for a put), for every S, K, T, r and option type.
C1_NaNOnUnusablePrice ==
    (optPc = "done" /\ (\/ IsNaN(optMp)
                        \/ Val(optMp) <= 0
                        \/ Val(optMp) <= ClaimIntrinsic + PriceEps))
        => IsNaN(optVol)

\* C1 witness: before expiry, a positive market price equal to a positive
\* intrinsic value was given, and NaN came back
C1_Witness ==
    /\ optPc = "done"
    /\ optArgs.T > 0
    /\ ~IsNaN(optMp)
    /\ Val(optMp) > 0
    /\ Val(optMp) = ClaimIntrinsic
    /\ IsNaN(optVol)

\* the rounding of the fixed-point prices, in cents
PriceTol == 3

\* C2 (as claimed): for both option types, T > 0 and sigma in [1e-6, 5.0], if
\* p = _bs_price(S, K, T, r, sigma, type) is above intrinsic value then
\* implied_volatility_from_price(p, ...) returns a volatility v, not NaN, with
\* _bs_price(S, K, T, r, v, type) equal to p up to the rounding of prices.
C2_InvertsBsPrice ==
    (/\ optPc = "done"
     /\ optMp = optPrice
     /\ optArgs.T > 0
     /\ optArgs.sigma >= SigLow
     /\ optArgs.sigma <= SigHigh
     /\ Val(optPrice) > ClaimIntrinsic)
        => /\ ~IsNaN(optVol)
           /\ Abs(BsPrice(optArgs.S, optArgs.K, optArgs.T, optArgs.r, Val(optVol),
                          optArgs.option_type) - Val(optPrice)) <= PriceTol

\* the put price as C3 states it: K*exp(-rT)*N(-d2) - S*N(-d1)
ClaimPutPrice ==
    RDiv(Discounted(optArgs.K, optArgs.T, optArgs.r)
            * NormCdf(-D2(optArgs.S, optArgs.K, optArgs.T, optArgs.r, optArgs.sigma)), Q)
      - RDiv(optArgs.S
            * NormCdf(-D1(optArgs.S, optArgs.K, optArgs.T, optArgs.r, optArgs.sigma)), Q)

\* C3 (as claimed): for T > 0 and sigma > 0 the put price is
\* K*exp(-rT)*N(-d2) - S*N(-d1), so that put-call parity holds:
\* _bs_price(call) - _bs_price(put) = S - K*exp(-rT), up to the rounding of prices.
C3_PutCallParity ==
    (/\ optPc = "priced"
     /\ optArgs.option_type = "put"
     /\ optArgs.T > 0
     /\ optArgs.sigma > 0)
        => /\ Val(optPrice) = ClaimPutPrice
           /\ Abs(BsPrice(optArgs.S, optArgs.K, optArgs.T, optArgs.r, optArgs.sigma, "call")
                    - Val(optPrice)
                    - (optArgs.S - Discounted(optArgs.K, optArgs.T, optArgs.r)))
                <= PriceTol

\* C4: _bs_price returns the undiscounted intrinsic value when T <= 0,
\* whatever sigma is, and the discounted intrinsic value when T > 0 and
\* sigma <= 0, both without the d1/d2 formula, and never a negative price.
C4_DegenerateInputs ==
    optPc = "priced" =>
        /\ optArgs.T <= 0 =>
              /\ BsBranch(optArgs.T, optArgs.sigma) # "formula"
              /\ Val(optPrice) = (IF optArgs.option_type = "call"
                                  THEN Pos(optArgs.S - optArgs.K)
                                  ELSE Pos(optArgs.K - optArgs.S))
              /\ Val(optPrice) >= 0
        /\ (optArgs.T > 0 /\ optArgs.sigma <= 0) =>
              /\ BsBranch(optArgs.T, optArgs.sigma) # "formula"
              /\ Val(optPrice) =
                    (IF optArgs.option_type = "call"
                     THEN Pos(optArgs.S - Discounted(optArgs.K, optArgs.T, optArgs.r))
                     ELSE Pos(Discounted(optArgs.K, optArgs.T, optArgs.r) - optArgs.S))
              /\ Val(optPrice) >= 0

\* C4 witness: an expired option with a rate and a volatility <= 0 was priced
\* at its positive undiscounted intrinsic value
C4_Witness ==
    /\ optPc = "priced"
    /\ optArgs.T < 0
    /\ optArgs.sigma <= 0
    /\ optArgs.r > 0
    /\ Val(optPrice) > 0

(***************************************************************************)
(* Properties of the DataLoader, checked under SpecLoader                  *)
(***************************************************************************)

\* the ticker of the call is a non-empty string
TickerIsNonEmptyStr == ldCall.ticker.isStr /\ ldCall.ticker.text # ""

\* the interval of the call is one of the 11 listed values
IntervalIsListed ==
    ldCall.interval \in {"1d", "5d", "1mo", "3mo", "6mo", "1y", "2y", "5y", "10y",
                         "ytd", "max"}

\* both dates of the call parse as YYYY-MM-DD
DatesParse == Strptime(ldCall.start_date).ok /\ Strptime(ldCall.end_date).ok

\* start is strictly before end
StartBeforeEnd == Strptime(ldCall.start_date).day < Strptime(ldCall.end_date).day

\* the four-argument call passes every check of _validate_input
ArgumentsValid ==
    TickerIsNonEmptyStr /\ IntervalIsListed /\ DatesParse /\ StartBeforeEnd

\* C5: download_financials(ticker), when the source returns a non-empty
\* financials table (metrics as rows, dates as columns), returns a non-empty
\* table with one row per reporting date, a Symbol column whose value is the
\* ticker on every row, and no column for a metric whose values are all missing.
\* (The source is asked, and returns, only for a ticker that is a non-empty string.)
C5_FinancialsTable ==
    (/\ ldCall.method = "download_financials"
     /\ TickerIsNonEmptyStr
     /\ ~ldCall.feed.raises
     /\ ~IsEmpty(ldCall.feed.value))
        => /\ ~ldRet.raised
           /\ ldRet.value.type = "DataFrame"
           /\ ~IsEmpty(ldRet.value)
           /\ Len(ldRet.value.index) = Len(ldCall.feed.value.columns)
           /\ ColCells(ldRet.value, ColPos(ldRet.value, "index")) = ldCall.feed.value.columns
           /\ "Symbol" \in Range(ldRet.value.columns)
           /\ \A i \in 1..Len(ldRet.value.index) :
                 ldRet.value.data[i][ColPos(ldRet.value, "Symbol")] = ldCall.ticker.text
           /\ \A m \in 1..Len(ldCall.feed.value.index) :
                 (\A d \in 1..Len(ldCall.feed.value.columns) :
                     ldCall.feed.value.data[m][d] = NA)
                   => ldCall.feed.value.index[m] \notin Range(ldRet.value.columns)

\* C5 witness: the table of the unit test (two dates, EmptyMetric all missing)
\* came back as two rows without the EmptyMetric column
C5_Witness ==
    /\ ldCall.method = "download_financials"
    /\ TickerIsNonEmptyStr
    /\ ldCall.feed = SourceGives(TestFinancials)
    /\ Len(ldRet.value.index) = 2
    /\ ldRet.value.columns = << "index", "Total Revenue", "Net Income", "Symbol" >>

\* C6: _validate_input returns True exactly when the ticker is a non-empty
\* string, the interval is one of the 11 listed values, both dates parse as
\* YYYY-MM-DD and start is strictly before end; otherwise it raises ValueError,
\* with the message of the first failing check in the order ticker, interval,
\* date format, date order.
C6_ValidateInput ==
    ldCall.method = "_validate_input" =>
        /\ Len(ValidIntervals) = 11
        /\ ArgumentsValid <=> (~ldRet.raised /\ ldRet.value = TRUE)
        /\ ~ArgumentsValid =>
              /\ ldRet.raised
              /\ ldRet.exc = "ValueError"
              /\ ldRet.msg = (IF ~TickerIsNonEmptyStr THEN TickerError
                              ELSE IF ~IntervalIsListed THEN IntervalError
                              ELSE IF ~DatesParse THEN FormatError
                              ELSE OrderError)

\* C6 witness: every check would fail (equal dates are handled by the last),
\* and the ticker's error was raised
C6_Witness ==
    /\ ldCall.method = "_validate_input"
    /\ ~TickerIsNonEmptyStr
    /\ ~IntervalIsListed
    /\ ~DatesParse
    /\ ldRet.raised
    /\ ldRet.msg = TickerError

\* the call is one of the four download methods that promise a DataFrame
IsFrameMethod ==
    ldCall.method \in {"download_history_data", "market_data",
                       "download_options_data", "download_financials"}

\* the arguments of the call fail the validation the method applies
CallArgumentsInvalid ==
    IF ldCall.method \in {"download_history_data", "market_data"}
    THEN ~ArgumentsValid
    ELSE ~TickerIsNonEmptyStr

\* the source raised, or returned an empty result
SourceFailsOrEmpty ==
    \/ ldCall.feed.raises
    \/ ldCall.feed.value = None
    \/ (ldCall.method # "download_options_data" /\ IsEmpty(ldCall.feed.value))

\* C7 (as claimed): download_history_data, market_data, download_options_data
\* and download_financials never raise and return a pandas DataFrame, an empty
\* one on invalid arguments, an empty result or an exception from the source.
C7_AlwaysDataFrame ==
    IsFrameMethod =>
        /\ ~ldRet.raised
        /\ ldRet.value.type = "DataFrame"
        /\ (CallArgumentsInvalid \/ SourceFailsOrEmpty) => IsEmpty(ldRet.value)

\* C8: download_all_data never raises and returns a TickerData whose three
\* fields are DataFrames, all three empty when argument validation fails.
C8_AllDataShape ==
    ldCall.method = "download_all_data" =>
        /\ ~ldRet.raised
        /\ ldRet.value.type = "TickerData"
        /\ ldRet.value.market_data.type = "DataFrame"
        /\ ldRet.value.options_data.type = "DataFrame"
        /\ ldRet.value.financials.type = "DataFrame"
        /\ ~ArgumentsValid =>
              /\ IsEmpty(ldRet.value.market_data)
              /\ IsEmpty(ldRet.value.options_data)
              /\ IsEmpty(ldRet.value.financials)

\* C8 witness: the ticker is good and the source would answer every request
\* with data, the dates are in the wrong order, and three empty frames came back
C8_Witness ==
    /\ ldCall.method = "download_all_data"
    /\ TickerIsNonEmptyStr /\ IntervalIsListed /\ DatesParse /\ ~StartBeforeEnd
    /\ ~ldCall.history.raises /\ ~IsEmpty(ldCall.history.value)
    /\ ldCall.financials = SourceGives(TestFinancials)
    /\ ldRet.value.market_data = EmptyFrame
    /\ ldRet.value.options_data = EmptyFrame
    /\ ldRet.value.financials = EmptyFrame

(***************************************************************************)
(* Properties of calculate_iv_term_structure, checked under                *)
(* SpecTermStructure                                                       *)
(***************************************************************************)

RECURSIVE Insert(_, _)
\* x put into an ascending sequence
Insert(x, sorted) ==
    IF sorted = << >> THEN << x >>
    ELSE IF x <= sorted[1] THEN << x >> \o sorted
    ELSE << sorted[1] >> \o Insert(x, Tail(sorted))

RECURSIVE Ascending(_)
Ascending(seq) ==
    IF seq = << >> THEN << >> ELSE Insert(seq[1], Ascending(Tail(seq)))

\* the median of the values of a series that are not NaN
Median(series) ==
    LET v == Ascending(Valid(series))
        n == Len(v)
    IN  IF n = 0 THEN NaN
        ELSE IF n % 2 = 1 THEN Num(Fraction(v[(n + 1) \div 2], 1))
        ELSE Num(Fraction(v[n \div 2] + v[n \div 2 + 1], 2))

\* two aggregates are the same float, or both missing
SameFloat(a, b) == (IsNaN(a) /\ IsNaN(b)) \/ FloatEq(a, b)

\* C9 (as claimed): with agg='median' calculate_iv_term_structure returns one
\* row per distinct expiry whose IV_median value is the median of
\* impliedVolatility over the rows of that expiry; with any other agg it is
\* the mean.
C9_MedianByExpiry ==
    (tsPc = "done" /\ tsArgs.options_df # << >>) =>
        /\ Len(tsOut) = Cardinality({tsArgs.options_df[i].expiry :
                                        i \in 1..Len(tsArgs.options_df)})
        /\ {tsOut[k].expiry : k \in 1..Len(tsOut)}
              = {tsArgs.options_df[i].expiry : i \in 1..Len(tsArgs.options_df)}
        /\ \A k \in 1..Len(tsOut) :
              IF tsArgs.agg = "median"
              THEN /\ tsOut[k].column = "IV_median"
                   /\ SameFloat(tsOut[k].iv,
                                Median(GroupCells(tsArgs.options_df, tsOut[k].expiry)))
              ELSE SameFloat(tsOut[k].iv,
                             Mean(GroupCells(tsArgs.options_df, tsOut[k].expiry)))

(***************************************************************************)
(* Properties of ClassicStrategies, checked under SpecStrategies           *)
(***************************************************************************)

\* on row i the short moving average is above the long one (both defined)
ShortAboveLong(i) ==
    FloatGt(RollingMean(stArgs.close, stArgs.short)[i],
            RollingMean(stArgs.close, stArgs.long)[i])

\* on row i the short moving average is below the long one (both defined)
ShortBelowLong(i) ==
    FloatGt(RollingMean(stArgs.close, stArgs.long)[i],
            RollingMean(stArgs.close, stArgs.short)[i])

\* C10 (as claimed): one signal per input row, each in {1, -1}: 1 exactly on
\* rows where the short moving average is above the long one, and -1 exactly
\* on rows where the short moving average is below the long one.
C10_AsClaimed ==
    stPc = "done" =>
        /\ Len(stSignal) = Len(stArgs.close)
        /\ \A i \in 1..Len(stSignal) :
              /\ stSignal[i] \in {1, -1}
              /\ stSignal[i] = 1 <=> ShortAboveLong(i)
              /\ stSignal[i] = -1 <=> ShortBelowLong(i)

\* C10 (amended): one signal per input row, each in {1, -1}: 1 exactly on rows
\* where the short moving average is above the long one, and -1 on every other
\* row: where it is below or equal, and where either average is undefined
\* (fewer rows than its window so far).
C10_SignalByComparison ==
    stPc = "done" =>
        /\ Len(stSignal) = Len(stArgs.close)
        /\ \A i \in 1..Len(stSignal) :
              /\ stSignal[i] \in {1, -1}
              /\ stSignal[i] = 1 <=> ShortAboveLong(i)
              /\ stSignal[i] = -1 <=>
                    \/ ShortBelowLong(i)
                    \/ FloatEq(RollingMean(stArgs.close, stArgs.short)[i],
                               RollingMean(stArgs.close, stArgs.long)[i])
                    \/ IsNaN(RollingMean(stArgs.close, stArgs.short)[i])
                    \/ IsNaN(RollingMean(stArgs.close, stArgs.long)[i])

\* C10 witness: a series with a row signalled 1, a warm-up row signalled -1
\* and a row of equal averages signalled -1
C10_Witness ==
    /\ stPc = "done"
    /\ stArgs.short < stArgs.long
    /\ \E i, j, k \in 1..Len(stSignal) :
          /\ stSignal[i] = 1 /\ ShortAboveLong(i)
          /\ stSignal[j] = -1 /\ IsNaN(RollingMean(stArgs.close, stArgs.long)[j])
          /\ stSignal[k] = -1
          /\ FloatEq(RollingMean(stArgs.close, stArgs.short)[k],
                     RollingMean(stArgs.close, stArgs.long)[k])

\* the closes of the window that ends on row i
WindowCloses(i) ==
    [k \in 1..stArgs.window |-> Val(stArgs.close[i - stArgs.window + k])]

\* the Bollinger bands exist on row i: the window is full, and holds the two
\* values or more that a standard deviation takes
BandsDefined(i) == i >= stArgs.window /\ stArgs.window >= 2

\* window^2 * (window - 1) times the sample variance of the window ending on
\* row i: the sum of the squares of window * x - sum
ScaledSquares(i) ==
    LET w == WindowCloses(i)
    IN  SumSeq([k \in 1..stArgs.window |->
                   (stArgs.window * w[k] - SumSeq(w)) * (stArgs.window * w[k] - SumSeq(w))])

\* window * (Close - rolling mean) on row i
ScaledGap(i) == stArgs.window * Val(stArgs.close[i]) - SumSeq(WindowCloses(i))

\* |Close - mean| > num_std * std on row i, both sides squared and scaled
OutsideBands(i) ==
    ScaledGap(i) * ScaledGap(i) * (stArgs.window - 1) * stArgs.num_std.den * stArgs.num_std.den
        > stArgs.num_std.num * stArgs.num_std.num * ScaledSquares(i)

\* Close is below the lower band, rolling mean - num_std * rolling std
BelowLowerBand(i) == BandsDefined(i) /\ ScaledGap(i) < 0 /\ OutsideBands(i)

\* Close is above the upper band, rolling mean + num_std * rolling std
AboveUpperBand(i) == BandsDefined(i) /\ ScaledGap(i) > 0 /\ OutsideBands(i)

\* C11: mean_reversion_bollinger returns one signal per input row in
\* {1, 0, -1}: 1 exactly when Close is below the lower band, -1 exactly when
\* Close is above the upper band, 0 otherwise, including every row of the
\* warm-up period where the bands are undefined; no row is both long and short.
C11_BollingerSignal ==
    stPc = "bollinger" =>
        /\ Len(stSignal) = Len(stArgs.close)
        /\ \A i \in 1..Len(stSignal) :
              /\ stSignal[i] \in {1, 0, -1}
              /\ stSignal[i] = 1 <=> BelowLowerBand(i)
              /\ stSignal[i] = -1 <=> AboveUpperBand(i)
              /\ ~BandsDefined(i) => stSignal[i] = 0
              /\ ~(BelowLowerBand(i) /\ AboveUpperBand(i))

\* C11 witness: with bands a positive number of deviations wide, a series with
\* a warm-up row at 0, a row below the lower band at 1, a row above the upper
\* band at -1 and a row within the bands at 0
C11_Witness ==
    /\ stPc = "bollinger"
    /\ stArgs.num_std.num > 0
    /\ \E i, j, k, l \in 1..Len(stSignal) :
          /\ ~BandsDefined(i) /\ stSignal[i] = 0
          /\ BelowLowerBand(j) /\ stSignal[j] = 1
          /\ AboveUpperBand(k) /\ stSignal[k] = -1
          /\ BandsDefined(l) /\ stSignal[l] = 0

\* the rows that precede row i, `window` of them: the row itself is left out
PrecedingRows(i) == (i - stArgs.window)..(i - 1)

\* row i has `window` rows before it
HasPrecedingWindow(i) == i > stArgs.window

\* Close on row i exceeds the maximum of the previous `window` closes
AbovePreviousMax(i) ==
    /\ HasPrecedingWindow(i)
    /\ \A k \in PrecedingRows(i) : Val(stArgs.close[i]) > Val(stArgs.close[k])

\* Close on row i is below the minimum of the previous `window` closes
BelowPreviousMin(i) ==
    /\ HasPrecedingWindow(i)
    /\ \A k \in PrecedingRows(i) : Val(stArgs.close[i]) < Val(stArgs.close[k])

\* C12: breakout_strategy compares each Close with the extremes of the
\* preceding `window` rows only (the current row excluded): the signal is 1
\* exactly when Close exceeds the maximum of the previous `window` closes, -1
\* exactly when it is below their minimum, and 0 otherwise, so the first
\* `window` rows are always 0.
C12_BreakoutSignal ==
    stPc = "breakout" =>
        /\ Len(stSignal) = Len(stArgs.close)
        /\ \A i \in 1..Len(stSignal) :
              /\ stSignal[i] \in {1, 0, -1}
              /\ stSignal[i] = 1 <=> AbovePreviousMax(i)
              /\ stSignal[i] = -1 <=> BelowPreviousMin(i)
              /\ i <= stArgs.window => stSignal[i] = 0

\* C12 witness: a series with a row above the previous maximum at 1, a row
\* below the previous minimum at -1, a row equal to the previous maximum at 0,
\* and a row among the first `window` at 0
C12_Witness ==
    /\ stPc = "breakout"
    /\ \E i, j, k, l \in 1..Len(stSignal) :
          /\ AbovePreviousMax(i) /\ stSignal[i] = 1
          /\ BelowPreviousMin(j) /\ stSignal[j] = -1
          /\ HasPrecedingWindow(k) /\ stSignal[k] = 0
          /\ stArgs.close[k] = RollingMax(stArgs.close, stArgs.window)[k - 1]
          /\ l <= stArgs.window /\ stSignal[l] = 0

(***************************************************************************)
(* Properties of TechnicalIndicators and FinancialAnalysis, checked under  *)
(* SpecAnalysis                                                            *)
(***************************************************************************)

\* the table the claim describes: indexed like the market data, its column
\* bb_percent_b equal to (Close - bb_lower) / (bb_upper - bb_lower)
ClaimPercentB(market_data, bollinger_data) ==
    Frame(market_data.index, << "bb_percent_b" >>,
          [i \in 1..Len(market_data.index) |->
              LET close == ColCells(market_data, ColPos(market_data, "Close"))[i]
                  lower == ColCells(bollinger_data, ColPos(bollinger_data, "bb_lower"))[i]
                  upper == ColCells(bollinger_data, ColPos(bollinger_data, "bb_upper"))[i]
              IN  << IF NaN \in {close, lower, upper} THEN NaN
                     ELSE Num(Fraction(Val(close) - Val(lower), Val(upper) - Val(lower))) >>])

\* C13 (as claimed): compute_bollinger_percent_b, given market data with a
\* Close column and Bollinger data with bb_upper and bb_lower columns, returns
\* a table indexed like the market data with a bb_percent_b column equal to
\* (Close - bb_lower) / (bb_upper - bb_lower); when a required column is
\* missing it returns the corresponding input table instead of raising.
C13_PercentBOrInput ==
    anCall.method = "compute_bollinger_percent_b" =>
        /\ ~anRet.raised
        /\ IF ~({"bb_upper", "bb_lower"} \subseteq Range(anCall.bollinger_data.columns))
           THEN anRet.value = anCall.bollinger_data
           ELSE IF "Close" \notin Range(anCall.market_data.columns)
           THEN anRet.value = anCall.market_data
           ELSE anRet.value = ClaimPercentB(anCall.market_data, anCall.bollinger_data)

\* the number of the three conditions that row i of a table of financials
\* satisfies: Net Income > 0, Operating Cash Flow > 0, Operating Cash Flow >
\* Net Income
ConditionsMet(financial, i) ==
    LET ni  == ColCells(financial, ColPos(financial, "Net Income"))[i]
        ocf == ColCells(financial, ColPos(financial, "Operating Cash Flow"))[i]
    IN  Cardinality({c \in {"income", "cash", "quality"} :
            \/ c = "income" /\ ~IsNaN(ni) /\ Val(ni) > 0
            \/ c = "cash" /\ ~IsNaN(ocf) /\ Val(ocf) > 0
            \/ c = "quality" /\ ~IsNaN(ni) /\ ~IsNaN(ocf) /\ Val(ocf) > Val(ni)})

\* C14 (as claimed): compute_piotroski, given a table with Net Income and
\* Operating Cash Flow columns, returns for every row an integer score in 0..3
\* equal to the number of satisfied conditions among Net Income > 0, Operating
\* Cash Flow > 0, Operating Cash Flow > Net Income.
C14_PiotroskiScore ==
    (/\ anCall.method = "compute_piotroski"
     /\ {"Net Income", "Operating Cash Flow"} \subseteq Range(anCall.financial.columns)) =>
        /\ ~anRet.raised
        /\ anRet.value.index = anCall.financial.index
        /\ Len(anRet.value.values) = Len(anCall.financial.index)
        /\ \A i \in 1..Len(anCall.financial.index) :
              /\ anRet.value.values[i] \in 0..3
              /\ anRet.value.values[i] = ConditionsMet(anCall.financial, i)

(***************************************************************************)
(* Expired options, checked under SpecOptions                              *)
(***************************************************************************)

\* row i of the table given to compute_implied_vols expires today or earlier
ExpiresTodayOrBefore(i) == optDf.options_df[i].expiry <= optDf.now.date

\* C16: for zero or negative time-to-expiry (T <= 0)
\* implied_volatility_from_price returns NaN for every market price, strike,
\* spot and option type; consequently compute_implied_vols gives
\* impliedVolatility = NaN on every row whose expiry is today or in the past.
C16_ExpiredGivesNaN ==
    /\ (optPc = "done" /\ optArgs.T <= 0) => IsNaN(optVol)
    /\ optPc = "computed" =>
          /\ Len(optOut) = Len(optDf.options_df)
          /\ \A i \in 1..Len(optOut) :
                ExpiresTodayOrBefore(i) =>
                    /\ optOut[i].time_to_expiry <= 0
                    /\ IsNaN(optOut[i].impliedVolatility)

\* C16 witness: in the table of compute_implied_vols a row expiring today with
\* a price above its intrinsic value at NaN, next to a row of the same price
\* and type expiring later with a volatility
C16_Witness ==
    /\ optPc = "computed"
    /\ \E i, j \in 1..Len(optOut) :
          /\ optDf.options_df[i].expiry = optDf.now.date
          /\ ~IsNaN(optOut[i].mid)
          /\ Val(optOut[i].mid) > Intrinsic(optDf.spot_price, optOut[i].strike, "call")
          /\ IsNaN(optOut[i].impliedVolatility)
          /\ optOut[j].mid = optOut[i].mid
          /\ optOut[j].Type = optOut[i].Type
          /\ optOut[j].time_to_expiry > 0
          /\ ~IsNaN(optOut[j].impliedVolatility)

(***************************************************************************)
(* The DataLoader's own state, checked under SpecLoader                    *)
(***************************************************************************)

\* what a call returns or raises, from the call alone: its method, its
\* arguments and what the data source answers to it
ResultOf(call) ==
    CASE call.method = "_validate_input" ->
             ValidateInput(call.ticker, call.interval, call.start_date, call.end_date)
      [] call.method = "download_history_data" ->
             DownloadHistoryData(call.ticker, call.interval, call.start_date,
                                 call.end_date, call.feed)
      [] call.method = "market_data" ->
             MarketData(call.ticker, call.interval, call.start_date, call.end_date,
                        call.feed)
      [] call.method = "download_options_data" ->
             DownloadOptionsData(call.ticker, call.feed)
      [] call.method = "download_financials" ->
             DownloadFinancials(call.ticker, call.feed)
      [] call.method = "download_all_data" ->
             DownloadAllData(call.ticker, call.interval, call.start_date,
                             call.end_date, call.history, call.chain, call.financials)

\* C15: DataLoader holds no evolving state: after construction and after any
\* sequence of calls of its methods, successful or failing, in any order,
\* source is still 'yfinance' and tickers is still the same fixed list of 10
\* symbols, and the result of a call does not depend on earlier calls.
C15_NoEvolvingState ==
    /\ [](/\ source = "yfinance"
          /\ tickers = TopTickers
          /\ Len(tickers) = 10
          /\ Cardinality(Range(tickers)) = 10)
    /\ [][/\ source' = source
          /\ tickers' = tickers
          /\ ldCall' # NoCall => ldRet' = ResultOf(ldCall')]_vars

\* C15 witness: a call that failed inside (download_history_data answering
\* its except clause) has returned, and source and tickers are what the
\* constructor set
C15_Witness ==
    /\ ldCall.method = "download_history_data"
    /\ ~ValidateInput(ldCall.ticker, ldCall.interval, ldCall.start_date,
                      ldCall.end_date).raised
    /\ ldCall.feed.raises
    /\ ldRet = Returned(EmptyDict)
    /\ source = "yfinance"
    /\ tickers = TopTickers

====
